---- MODULE Spec2Model ----
(***************************************************************************)
(* Poll store of poll-miniapp: the persistent (Redis backed) variant of    *)
(* src/src/app/api/polls/route.ts.  Every request handler is split at its  *)
(* awaits on the store, so that overlapping requests interleave exactly    *)
(* where the JavaScript event loop lets them.  The in-memory variant of    *)
(* the same file runs next to it in SpecBoth, on the same requests.        *)
(*                                                                         *)
(* Time is counted in clock units of MsPerUnit milliseconds.  Strings that *)
(* the code trims are sequences of one-character strings; identifiers that *)
(* the code only compares are TLA+ strings.                                *)
(***************************************************************************)
EXTENDS Integers, Sequences, FiniteSets, TLC

\* ------------------------------------------------------------------ bounds

\* Number of polls created in one behaviour.
MaxPolls == 1
\* Number of request handlers that can be in progress at the same time.
MaxReq == 2
\* Number of times the clock advances in one behaviour.
MaxTicks == 2
\* Number of requests sent to both variants in one behaviour of SpecBoth.
MaxSends == 3

\* ------------------------------------------------------------- time units

\* Milliseconds per clock unit of the model.
MsPerUnit == 10 * 10

\* 1000 milliseconds in clock units: every duration of the code is a multiple.
Second == 1000 \div MsPerUnit

\* One hour: the shortest duration a poll can have.
Hour == 60 * 60 * Second

\* The value of an arithmetic expression that is no number.  Every time of the
\* model is >= 0, so that a negative number can stand for it.
NaN == 0 - 1

\* Names that UNIT_MS, an object literal, inherits from Object.prototype: the
\* lookup UNIT_MS[name] finds a function, which is truthy.
InheritedNames == {"constructor", "toString"}

\* UNIT_MS[durationUnit] || UNIT_MS.days as a factor of amount * unit: a number
\* of clock units, or NaN when the lookup finds an inherited function.
UNIT_MS(unit) ==
    CASE unit = "hours"  -> 60 * 60 * Second
      [] unit = "days"   -> 24 * 60 * 60 * Second
      [] unit = "weeks"  -> 7 * 24 * 60 * 60 * Second
      [] unit = "months" -> 30 * 24 * 60 * 60 * Second
      [] unit \in InheritedNames -> NaN
      [] OTHER           -> 24 * 60 * 60 * Second

\* The buffer savePoll adds to the poll's own expiry: 30 days.
TtlBufferUnits == 30 * 24 * 60 * 60 * Second

\* The least time-to-live savePoll ever asks for, in seconds.
MinTtlSeconds == 3600

Max(a, b) == IF a >= b THEN a ELSE b

\* Math.ceil(a / b) for b > 0.
CeilDiv(a, b) == IF a >= 0 THEN (a + b - 1) \div b ELSE -((-a) \div b)

\* ---------------------------------------------------------------- strings

IsBlank(c) == c = " "

RECURSIVE TrimStart(_)
TrimStart(s) ==
    IF s = <<>> THEN <<>>
    ELSE IF IsBlank(Head(s)) THEN TrimStart(Tail(s))
    ELSE s

RECURSIVE TrimEnd(_)
TrimEnd(s) ==
    IF s = <<>> THEN <<>>
    ELSE IF IsBlank(s[Len(s)]) THEN TrimEnd(SubSeq(s, 1, Len(s) - 1))
    ELSE s

\* String.prototype.trim
Trim(s) == TrimEnd(TrimStart(s))

\* A string is truthy in JavaScript iff it is not empty.
Truthy(s) == s # <<>>

\* ----------------------------------------------------------------- inputs

PollIds == 1..MaxPolls

Slots == 1..MaxReq

Visitors == {"A", "B"}

\* visitorId values a request can carry.
VisitorInputs == Visitors

\* The value of a field the JSON body of a request does not have, and the
\* value JSON.stringify writes for it inside an array.
Undefined == "<undefined>"
Null == "<null>"

\* visitorId values of a PUT sent to both variants: a visitor, or no visitorId.
BodyVisitorInputs == Visitors \cup {Undefined}

\* visitorId values of a GET: a visitor, or "" for a request without one.
CallerInputs == Visitors \cup {""}

\* creatorId values a Create request can carry ("" stands for a missing one).
CreatorInputs == {"A"}

TitleInputs == {<<>>, <<" ">>, <<" ", "Q">>}

OptionInputs ==
    { << <<"x">> >>,
      << <<"x">>, <<" ">> >>,
      << <<"x">>, <<"y", " ">> >> }

NameInputs == {<<>>}

\* durationAmount (0 also stands for a missing amount) and durationUnit.
DurationInputs == {[amount |-> 0, unit |-> "hours"]}

\* optionIndex: a JSON number in halves (h = 2 * optionIndex), or no number.
IndexInputs ==
    [num : {TRUE}, h : -2..5] \cup {[num |-> FALSE, h |-> 0]}

TickSteps == {Hour, TtlBufferUnits}

\* ------------------------------------------------------------------ state

VARIABLES
    kv,       \* Redis keys poll:<id>: the stored record of each id, or Nil
    kvExp,    \* the time at which the key of each id is removed (0: no key)
    zindex,   \* Redis sorted set polls:index: set of [member, score]
    now,      \* Date.now()
    ticks,    \* number of clock advances so far
    req,      \* the request handlers in progress, one per slot
    created,  \* history: the identifiers of the polls, in the order of their Creates
    picks,    \* history: [id, v, i] of every Vote that returned success
    deleted,  \* history: ids whose Delete returned success
    mem       \* the in-memory variant: its Map polls, and the request it shares

vars == <<kv, kvExp, zindex, now, ticks, req, created, picks, deleted, mem>>

Nil == [nil |-> TRUE]

Idle ==
    [op |-> "idle", pc |-> "idle", pollId |-> 0, visitorId |-> "", poll |-> Nil,
     ttl |-> 0, choice |-> 0, pending |-> <<>>, kind |-> "none", views |-> <<>>,
     wrote |-> FALSE, late |-> FALSE]

NoRequest == [op |-> "none"]

NoResponse == [kind |-> "none", views |-> <<>>]

\* const polls = new Map<string, Poll>(), and no request sent so far.
MemInit(ids) ==
    [polls |-> [p \in ids |-> Nil], phase |-> "idle", request |-> NoRequest,
     resp |-> NoResponse, sent |-> 0]

Init ==
    /\ kv = [p \in PollIds |-> Nil]
    /\ kvExp = [p \in PollIds |-> 0]
    /\ zindex = {}
    /\ now = 0
    /\ ticks = 0
    /\ req = [r \in Slots |-> Idle]
    /\ created = <<>>
    /\ picks = {}
    /\ deleted = {}
    /\ mem = MemInit(PollIds)

\* ---------------------------------------------------------------- helpers

\* The pairs <<id, visitor>> of the Votes that returned success.
voted == {<<e.id, e.v>> : e \in picks}

\* Array.prototype.includes
Includes(seq, x) == \E i \in 1..Len(seq) : seq[i] = x

\* Array.prototype.filter((o) => o.trim()) followed by
\* .map((o) => ({ text: o.trim(), votes: 0 }))
RECURSIVE FilterMapOptions(_)
FilterMapOptions(options) ==
    IF options = <<>> THEN <<>>
    ELSE IF Truthy(Trim(Head(options)))
         THEN <<[text |-> Trim(Head(options)), votes |-> 0]>>
              \o FilterMapOptions(Tail(options))
         ELSE FilterMapOptions(Tail(options))

RECURSIVE SumVotes(_)
SumVotes(options) ==
    IF options = <<>> THEN 0 ELSE Head(options).votes + SumVotes(Tail(options))

sanitize(poll) ==
    [id |-> poll.id, title |-> poll.title, options |-> poll.options,
     totalVoters |-> Len(poll.voters), creatorId |-> poll.creatorId,
     creatorName |-> poll.creatorName, createdAt |-> poll.createdAt,
     expiresAt |-> poll.expiresAt]

\* Date.now() > poll.expiresAt; a comparison with NaN is false.
isExpired(poll) == poll.expiresAt # NaN /\ now > poll.expiresAt

\* redis.get of poll:<id>; a key past its time-to-live is not there.
getPoll(id) == kv[id]

\* The response body of a poll: sanitize(poll) and the three annotations.
Annotated(poll, hasVoted, isCreator, expired) ==
    [poll |-> sanitize(poll), hasVoted |-> hasVoted, isCreator |-> isCreator,
     expired |-> expired]

\* Mutant: hasVoted tells whether anyone has voted.
GetViewAnyVoter(poll, visitorId) ==
    Annotated(poll,
              IF visitorId # "" THEN Len(poll.voters) > 0 ELSE FALSE,
              IF visitorId # "" THEN poll.creatorId = visitorId ELSE FALSE,
              isExpired(poll))

\* The annotations GET computes for a caller ("" is a missing visitorId).
GetView(poll, visitorId) ==
    Annotated(poll,
              IF visitorId # "" THEN Includes(poll.voters, visitorId) ELSE FALSE,
              IF visitorId # "" THEN poll.creatorId = visitorId ELSE FALSE,
              isExpired(poll))

\* Math.max(1, durationAmount || 1)
DurationAmount(amount) == Max(1, IF amount # 0 THEN amount ELSE 1)

\* expiresAt of a poll created now.
ExpiresAt(amount, unit) ==
    IF UNIT_MS(unit) = NaN THEN NaN
    ELSE now + DurationAmount(amount) * UNIT_MS(unit)

\* Mutant: the time-to-live without the buffer of 30 days.
TtlSecondsNoBuffer(poll) ==
    IF poll.expiresAt = NaN THEN NaN
    ELSE Max(CeilDiv(poll.expiresAt - now, Second), MinTtlSeconds)

\* ttlSeconds of savePoll, computed when savePoll is entered.
TtlSeconds(poll) ==
    IF poll.expiresAt = NaN THEN NaN
    ELSE Max(CeilDiv(poll.expiresAt - now + TtlBufferUnits, Second), MinTtlSeconds)

\* The members of the sorted set with the highest (score, member) first:
\* redis.zrange("polls:index", 0, -1, { rev: true }).
Above(a, b) == a.score > b.score \/ (a.score = b.score /\ a.member > b.member)

RECURSIVE ZRangeRev(_)
ZRangeRev(z) ==
    IF z = {} THEN <<>>
    ELSE LET top == CHOOSE a \in z : \A b \in z \ {a} : Above(a, b)
         IN <<top.member>> \o ZRangeRev(z \ {top})

\* redis.zadd: one entry per member, the score replaced.
ZAdd(z, score, member) ==
    {e \in z : e.member # member} \cup {[member |-> member, score |-> score]}

\* redis.zrem
ZRem(z, member) == {e \in z : e.member # member}

\* A request is taken by the first free slot, and only once every response
\* that is ready has been delivered (slots are interchangeable, and delivering
\* a response touches nothing but its slot).
Free(r) ==
    /\ req[r].pc = "idle"
    /\ \A q \in Slots : req[q].pc # "done" /\ (q < r => req[q].pc # "idle")

\* A step of a handler in progress.
InProgress(r, pc) ==
    /\ req[r].pc = pc
    /\ \A q \in Slots : req[q].pc # "done"

\* A handler that has returned: its response is kept until the slot is freed.
Returned(h, kind, views) ==
    [h EXCEPT !.pc = "done", !.kind = kind, !.views = views,
              !.poll = Nil, !.ttl = 0, !.choice = 0, !.pending = <<>>]

Start(op, pollId, visitorId) ==
    [Idle EXCEPT !.op = op, !.pollId = pollId, !.visitorId = visitorId]

\* savePoll up to its first await: the time-to-live is fixed here.
EnterSave(h, poll) == [h EXCEPT !.pc = "set", !.poll = poll, !.ttl = TtlSeconds(poll)]

\* -------------------------------------------------------------------- POST

\* !title?.trim() || !options || options.length < 2
CreateRejected(title, options) == ~Truthy(Trim(title)) \/ Len(options) < 2

\* Mutant: the creator is entered as the first voter.
NewPollCreatorVoted(id, title, options, creatorId, creatorName, dur) ==
    [id |-> id,
     title |-> Trim(title),
     options |-> FilterMapOptions(options),
     voters |-> <<creatorId>>,
     creatorId |-> IF creatorId # "" THEN creatorId ELSE "anonymous",
     creatorName |-> Trim(IF Truthy(creatorName) THEN creatorName
                          ELSE <<"A", "n", "o", "n">>),
     createdAt |-> now,
     expiresAt |-> ExpiresAt(dur.amount, dur.unit)]

NewPoll(id, title, options, creatorId, creatorName, dur) ==
    [id |-> id,
     title |-> Trim(title),
     options |-> FilterMapOptions(options),
     voters |-> <<>>,
     creatorId |-> IF creatorId # "" THEN creatorId ELSE "anonymous",
     creatorName |-> Trim(IF Truthy(creatorName) THEN creatorName
                          ELSE <<"A", "n", "o", "n">>),
     createdAt |-> now,
     expiresAt |-> ExpiresAt(dur.amount, dur.unit)]

\* Math.random().toString(36).substring(2, 10) when no identifier comes a
\* second time: the identifiers not handed out so far (they are handed out in
\* increasing order, which tells no behaviour from another while the
\* identifiers of the polls are only compared for equality).
RandomId == {Len(created) + 1}

\* POST from the request to the first await of savePoll; id is the value of
\* Math.random().toString(36).substring(2, 10).
Create(r, id, title, options, creatorId, creatorName, dur) ==
    /\ Free(r)
    /\ LET h == Start("POST", id, creatorId)
       IN req' = [req EXCEPT ![r] =
               IF CreateRejected(title, options)
               THEN Returned([h EXCEPT !.pollId = 0], "validation", <<>>)
               ELSE EnterSave(h, NewPoll(id, title, options, creatorId,
                                         creatorName, dur))]
    /\ created' = IF CreateRejected(title, options) THEN created ELSE Append(created, id)
    /\ UNCHANGED <<kv, kvExp, zindex, now, ticks, picks, deleted, mem>>

\* ---------------------------------------------------------------- savePoll

\* JSON.parse(JSON.stringify(poll)), which is what redis.get returns of the
\* poll redis.set was given: an undefined entry of an array comes back as null.
RECURSIVE NullForUndefined(_)
NullForUndefined(array) ==
    IF array = <<>> THEN <<>>
    ELSE <<IF Head(array) = Undefined THEN Null ELSE Head(array)>>
         \o NullForUndefined(Tail(array))

Serialized(poll) == [poll EXCEPT !.voters = NullForUndefined(poll.voters)]

\* redis.set(`poll:${poll.id}`, poll, { ex: ttlSeconds }) takes effect.
\* Redis refuses a time-to-live that is no integer: then savePoll throws and
\* the handler ends with an internal error, nothing written.
SaveSet(r) ==
    /\ InProgress(r, "set")
    /\ LET poll == req[r].poll
       IN IF req[r].ttl = NaN
          THEN /\ req' = [req EXCEPT ![r] = Returned(req[r], "internal", <<>>)]
               /\ UNCHANGED <<kv, kvExp, picks>>
          ELSE /\ kv' = [kv EXCEPT ![poll.id] = Serialized(poll)]
               /\ kvExp' = [kvExp EXCEPT ![poll.id] = now + req[r].ttl * Second]
               /\ picks' = IF req[r].op = "POST"
                           THEN {e \in picks : e.id # poll.id} ELSE picks
               /\ req' = [req EXCEPT ![r].pc = "zadd", ![r].wrote = TRUE]
    /\ UNCHANGED <<zindex, now, ticks, created, deleted, mem>>

\* The response of POST (line 213) and of PUT (lines 243-248).
SaveResponse(h) ==
    IF h.op = "POST"
    THEN Annotated(h.poll, FALSE, TRUE, FALSE)
    ELSE Annotated(h.poll, TRUE, h.poll.creatorId = h.visitorId, FALSE)

\* Mutant: the number of options is validated after the poll has been saved.
SaveReturnLateValidation(h) ==
    IF Len(h.poll.options) < 2 THEN Returned(h, "validation", <<>>)
    ELSE Returned(h, "ok", <<SaveResponse(h)>>)

\* The handler returns after savePoll.
SaveReturn(h) == Returned(h, "ok", <<SaveResponse(h)>>)

\* redis.zadd("polls:index", ...) takes effect and the handler returns.
SaveZadd(r) ==
    /\ InProgress(r, "zadd")
    /\ zindex' = ZAdd(zindex, req[r].poll.createdAt, req[r].poll.id)
    /\ picks' = IF req[r].op = "PUT"
                THEN picks \cup {[id |-> req[r].pollId, v |-> req[r].visitorId,
                                  i |-> req[r].choice]}
                ELSE picks
    /\ req' = [req EXCEPT ![r] = SaveReturn(req[r])]
    /\ UNCHANGED <<kv, kvExp, now, ticks, created, deleted, mem>>

\* --------------------------------------------------------------------- PUT

\* optionIndex < 0 || optionIndex >= poll.options.length; every comparison
\* with a value that is no number is false.
InvalidOption(idx, poll) ==
    idx.num /\ (idx.h < 0 \/ idx.h >= 2 * Len(poll.options))

\* poll.options[optionIndex] is an element of the array.
IsElement(idx, poll) ==
    idx.num /\ idx.h % 2 = 0 /\ idx.h \div 2 \in 0..(Len(poll.options) - 1)

\* Mutant: the increment without the push of the visitor.
CastVoteNoPush(poll, idx, visitorId) ==
    [poll EXCEPT !.options[idx.h \div 2 + 1].votes = @ + 1]

\* Mutant: the option remembers the visitor who voted for it last.
CastVoteKeepsVoter(poll, idx, visitorId) ==
    [poll EXCEPT !.options[idx.h \div 2 + 1] =
                     [text |-> @.text, votes |-> @.votes + 1, by |-> visitorId],
                 !.voters = Append(@, visitorId)]

\* poll.options[optionIndex].votes++; poll.voters.push(visitorId)
CastVote(poll, idx, visitorId) ==
    [poll EXCEPT !.options[idx.h \div 2 + 1].votes = @ + 1,
                 !.voters = Append(@, visitorId)]

\* Mutant: the option index is checked before the expiry.
VoteOutcomeIndexFirst(h, poll, idx) ==
    IF poll = Nil THEN Returned(h, "notfound", <<>>)
    ELSE IF InvalidOption(idx, poll) THEN Returned(h, "validation", <<>>)
    ELSE IF isExpired(poll) THEN Returned(h, "forbidden", <<>>)
    ELSE IF Includes(poll.voters, h.visitorId) THEN Returned(h, "forbidden", <<>>)
    ELSE IF ~IsElement(idx, poll) THEN Returned(h, "internal", <<>>)
    ELSE EnterSave([h EXCEPT !.choice = idx.h \div 2 + 1],
                   CastVote(poll, idx, h.visitorId))

\* Mutant: no check of poll.voters.includes(visitorId).
VoteOutcomeNoRevoteCheck(h, poll, idx) ==
    IF poll = Nil THEN Returned(h, "notfound", <<>>)
    ELSE IF isExpired(poll) THEN Returned(h, "forbidden", <<>>)
    ELSE IF InvalidOption(idx, poll) THEN Returned(h, "validation", <<>>)
    ELSE IF ~IsElement(idx, poll) THEN Returned(h, "internal", <<>>)
    ELSE EnterSave([h EXCEPT !.choice = idx.h \div 2 + 1],
                   CastVote(poll, idx, h.visitorId))

\* Mutant: the visitor is looked up in voters before the index is checked.
VoteOutcomeRevoteFirst(h, poll, idx) ==
    IF poll = Nil THEN Returned(h, "notfound", <<>>)
    ELSE IF isExpired(poll) THEN Returned(h, "forbidden", <<>>)
    ELSE IF Includes(poll.voters, h.visitorId) THEN Returned(h, "forbidden", <<>>)
    ELSE IF InvalidOption(idx, poll) THEN Returned(h, "validation", <<>>)
    ELSE IF ~IsElement(idx, poll) THEN Returned(h, "internal", <<>>)
    ELSE EnterSave([h EXCEPT !.choice = idx.h \div 2 + 1],
                   CastVote(poll, idx, h.visitorId))

\* PUT from the request to the first await of savePoll.
VoteOutcome(h, poll, idx) ==
    IF poll = Nil THEN Returned(h, "notfound", <<>>)
    ELSE IF isExpired(poll) THEN Returned(h, "forbidden", <<>>)
    ELSE IF InvalidOption(idx, poll) THEN Returned(h, "validation", <<>>)
    ELSE IF Includes(poll.voters, h.visitorId) THEN Returned(h, "forbidden", <<>>)
    ELSE IF ~IsElement(idx, poll) THEN Returned(h, "internal", <<>>)
    ELSE EnterSave([h EXCEPT !.choice = idx.h \div 2 + 1],
                   CastVote(poll, idx, h.visitorId))

Vote(r, id, idx, visitorId) ==
    /\ Free(r)
    /\ LET h == [Start("PUT", id, visitorId) EXCEPT
                    !.late = /\ <<id, visitorId>> \in voted
                             /\ getPoll(id) # Nil
                             /\ IsElement(idx, getPoll(id))]
       IN req' = [req EXCEPT ![r] = VoteOutcome(h, getPoll(id), idx)]
    /\ UNCHANGED <<kv, kvExp, zindex, now, ticks, created, picks, deleted, mem>>

\* ------------------------------------------------------------------ DELETE

\* Mutant: no check of the creator.
DeleteOutcomeNoOwnerCheck(h, poll) ==
    IF poll = Nil THEN Returned(h, "notfound", <<>>)
    ELSE [h EXCEPT !.pc = "del"]

DeleteOutcome(h, poll) ==
    IF poll = Nil THEN Returned(h, "notfound", <<>>)
    ELSE IF poll.creatorId # h.visitorId THEN Returned(h, "forbidden", <<>>)
    ELSE [h EXCEPT !.pc = "del"]

\* DELETE from the request to the await of redis.del.
Delete(r, id, visitorId) ==
    /\ Free(r)
    /\ req' = [req EXCEPT ![r] =
                  DeleteOutcome(Start("DELETE", id, visitorId), getPoll(id))]
    /\ UNCHANGED <<kv, kvExp, zindex, now, ticks, created, picks, deleted, mem>>

\* redis.del(`poll:${pollId}`) takes effect.
DeleteDel(r) ==
    /\ InProgress(r, "del")
    /\ kv' = [kv EXCEPT ![req[r].pollId] = Nil]
    /\ kvExp' = [kvExp EXCEPT ![req[r].pollId] = 0]
    /\ req' = [req EXCEPT ![r].pc = "zrem", ![r].wrote = TRUE]
    /\ UNCHANGED <<zindex, now, ticks, created, picks, deleted, mem>>

\* redis.zrem("polls:index", pollId) takes effect and the handler returns.
DeleteZrem(r) ==
    /\ InProgress(r, "zrem")
    /\ zindex' = ZRem(zindex, req[r].pollId)
    /\ deleted' = deleted \cup {req[r].pollId}
    /\ req' = [req EXCEPT ![r] = Returned(req[r], "ok", <<>>)]
    /\ UNCHANGED <<kv, kvExp, now, ticks, created, picks, mem>>

\* --------------------------------------------------------------------- GET

\* Mutant: an expired poll is answered as not found.
GetOutcomeHidesExpired(h, poll) ==
    IF poll = Nil \/ isExpired(poll) THEN Returned(h, "notfound", <<>>)
    ELSE Returned(h, "ok", <<GetView(poll, h.visitorId)>>)

GetOutcome(h, poll) ==
    IF poll = Nil THEN Returned(h, "notfound", <<>>)
    ELSE Returned(h, "ok", <<GetView(poll, h.visitorId)>>)

\* GET with an id.
Get(r, id, visitorId) ==
    /\ Free(r)
    /\ req' = [req EXCEPT ![r] = GetOutcome(Start("GET", id, visitorId), getPoll(id))]
    /\ UNCHANGED <<kv, kvExp, zindex, now, ticks, created, picks, deleted, mem>>

\* The loop of GET without an id, between two awaits of getPoll.
ListOutcome(h) ==
    IF h.pending = <<>> THEN Returned(h, "ok", h.views) ELSE [h EXCEPT !.pc = "list"]

\* GET without an id: redis.zrange answers.
List(r, visitorId) ==
    /\ Free(r)
    /\ req' = [req EXCEPT ![r] =
                  ListOutcome([Start("LIST", 0, visitorId) EXCEPT
                                  !.pending = ZRangeRev(zindex)])]
    /\ UNCHANGED <<kv, kvExp, zindex, now, ticks, created, picks, deleted, mem>>

\* One getPoll(pid) of the loop answers.
ListGet(r) ==
    /\ InProgress(r, "list")
    /\ LET poll == getPoll(Head(req[r].pending))
           views == IF poll = Nil THEN req[r].views
                    ELSE Append(req[r].views, GetView(poll, req[r].visitorId))
       IN req' = [req EXCEPT ![r] =
               ListOutcome([req[r] EXCEPT !.pending = Tail(@), !.views = views])]
    /\ UNCHANGED <<kv, kvExp, zindex, now, ticks, created, picks, deleted, mem>>

\* ------------------------------------------------------------- environment

\* The response has been delivered; the slot serves the next request.
Release(r) ==
    /\ req[r].pc = "done"
    /\ req' = [req EXCEPT ![r] = Idle]
    /\ UNCHANGED <<kv, kvExp, zindex, now, ticks, created, picks, deleted, mem>>

\* Time passes; Redis removes the keys whose time-to-live has run out.
Tick(d) ==
    /\ ticks < MaxTicks
    /\ \A q \in Slots : req[q].pc # "done"
    /\ now' = now + d
    /\ ticks' = ticks + 1
    /\ kv' = [p \in DOMAIN kv |->
                 IF kv[p] # Nil /\ kvExp[p] <= now + d THEN Nil ELSE kv[p]]
    /\ kvExp' = [p \in DOMAIN kv |->
                    IF kv[p] # Nil /\ kvExp[p] <= now + d THEN 0 ELSE kvExp[p]]
    /\ UNCHANGED <<zindex, req, created, picks, deleted, mem>>

Next ==
    \/ \E r \in Slots, id \in RandomId, title \in TitleInputs,
          options \in OptionInputs, creatorId \in CreatorInputs,
          creatorName \in NameInputs, dur \in DurationInputs :
          Len(created) < MaxPolls /\ Create(r, id, title, options, creatorId, creatorName, dur)
    \/ \E r \in Slots : SaveSet(r)
    \/ \E r \in Slots : SaveZadd(r)
    \/ \E r \in Slots, id \in PollIds, idx \in IndexInputs, v \in VisitorInputs :
          Vote(r, id, idx, v)
    \/ \E r \in Slots, id \in PollIds, v \in VisitorInputs : Delete(r, id, v)
    \/ \E r \in Slots : DeleteDel(r)
    \/ \E r \in Slots : DeleteZrem(r)
    \/ \E r \in Slots, id \in PollIds, v \in CallerInputs : Get(r, id, v)
    \/ \E r \in Slots, v \in CallerInputs : List(r, v)
    \/ \E r \in Slots : ListGet(r)
    \/ \E r \in Slots : Release(r)
    \/ \E d \in TickSteps : Tick(d)

Spec == Init /\ [][Next]_vars

\* ------------------------------------------- requests handled one at a time

\* The identifiers Math.random().toString(36).substring(2, 10) can give, any
\* of them at every call: one more than polls are created in Spec.
SeqIds == 1..(MaxPolls + 1)

InitSeq ==
    /\ kv = [p \in SeqIds |-> Nil]
    /\ kvExp = [p \in SeqIds |-> 0]
    /\ zindex = {}
    /\ now = 0
    /\ ticks = 0
    /\ req = [r \in Slots |-> Idle]
    /\ created = <<>>
    /\ picks = {}
    /\ deleted = {}
    /\ mem = MemInit(SeqIds)

\* No request is in progress.
Alone == \A q \in Slots : req[q].pc = "idle"

\* The client sends a request when the response to the last one has come.
NextSeq ==
    \/ \E r \in Slots, id \in SeqIds, title \in TitleInputs,
          options \in OptionInputs, creatorId \in CreatorInputs,
          creatorName \in NameInputs, dur \in DurationInputs :
          /\ Alone
          /\ Len(created) < MaxPolls + 1
          /\ Create(r, id, title, options, creatorId, creatorName, dur)
    \/ \E r \in Slots : SaveSet(r)
    \/ \E r \in Slots : SaveZadd(r)
    \/ \E r \in Slots, id \in SeqIds, idx \in IndexInputs, v \in VisitorInputs :
          Alone /\ Vote(r, id, idx, v)
    \/ \E r \in Slots, id \in SeqIds, v \in VisitorInputs :
          Alone /\ Delete(r, id, v)
    \/ \E r \in Slots : DeleteDel(r)
    \/ \E r \in Slots : DeleteZrem(r)
    \/ \E r \in Slots, id \in SeqIds, v \in VisitorInputs : Alone /\ Get(r, id, v)
    \/ \E r \in Slots, v \in VisitorInputs : Alone /\ List(r, v)
    \/ \E r \in Slots : ListGet(r)
    \/ \E r \in Slots : Release(r)
    \/ \E d \in TickSteps : Tick(d)

SpecSeq == InitSeq /\ [][NextSeq]_vars

\* ------------------------------------------------ the durations of a Create

\* durationAmount (0 also stands for a missing amount) and durationUnit: the
\* four units, a unit UNIT_MS does not have, a missing unit, and a unit that
\* names an inherited property.
DurationCases ==
    [amount : -1..2,
     unit : {"hours", "days", "weeks", "months", "years", "", "constructor"}]

\* Polls of every duration are created and read.
NextDur ==
    \/ \E r \in Slots, id \in RandomId, title \in TitleInputs,
          options \in OptionInputs, creatorId \in CreatorInputs,
          creatorName \in NameInputs, dur \in DurationCases :
          /\ Len(created) < MaxPolls
          /\ Create(r, id, title, options, creatorId, creatorName, dur)
    \/ \E r \in Slots : SaveSet(r)
    \/ \E r \in Slots : SaveZadd(r)
    \/ \E r \in Slots, id \in PollIds, v \in VisitorInputs : Get(r, id, v)
    \/ \E r \in Slots : Release(r)
    \/ \E d \in TickSteps : Tick(d)

SpecDur == Init /\ [][NextDur]_vars

\* --------------------------------------------------- the in-memory variant

\* !title?.trim() || !options || options.length < 2 of the in-memory POST
MemCreateRejected(title, options) == ~Truthy(Trim(title)) \/ Len(options) < 2

\* options.filter((o) => o.trim()).map((o) => ({ text: o.trim(), votes: 0 }))
\* of the in-memory POST
RECURSIVE MemFilterMapOptions(_)
MemFilterMapOptions(options) ==
    IF options = <<>> THEN <<>>
    ELSE IF Truthy(Trim(Head(options)))
         THEN <<[text |-> Trim(Head(options)), votes |-> 0]>>
              \o MemFilterMapOptions(Tail(options))
         ELSE MemFilterMapOptions(Tail(options))

\* sanitize of the in-memory variant
MemSanitize(poll) ==
    [id |-> poll.id, title |-> poll.title, options |-> poll.options,
     totalVoters |-> Cardinality(poll.voters), createdAt |-> poll.createdAt]

\* A response of the in-memory variant, and the Map it leaves.
MemResult(polls, kind, views) ==
    [polls |-> polls, resp |-> [kind |-> kind, views |-> views]]

MemView(poll, hasVoted) == [poll |-> MemSanitize(poll), hasVoted |-> hasVoted]

\* GET with an id of the in-memory variant ("" is a missing visitorId).
MemGET(polls, id, visitorId) ==
    IF polls[id] = Nil THEN MemResult(polls, "notfound", <<>>)
    ELSE MemResult(polls, "ok",
            <<MemView(polls[id],
                      IF visitorId # "" THEN visitorId \in polls[id].voters
                      ELSE FALSE)>>)

\* POST of the in-memory variant; id is the value of
\* Math.random().toString(36).substring(2, 10).
MemPOST(polls, id, title, options) ==
    IF MemCreateRejected(title, options) THEN MemResult(polls, "validation", <<>>)
    ELSE LET poll == [id |-> id,
                      title |-> Trim(title),
                      options |-> MemFilterMapOptions(options),
                      voters |-> {},
                      createdAt |-> now]
         IN MemResult([polls EXCEPT ![id] = poll], "ok", <<MemView(poll, FALSE)>>)

\* PUT of the in-memory variant; an option that is no element of the array
\* makes votes++ throw before anything is changed.
MemPUT(polls, pollId, idx, visitorId) ==
    LET poll == polls[pollId]
    IN IF poll = Nil THEN MemResult(polls, "notfound", <<>>)
       ELSE IF idx.num /\ (idx.h < 0 \/ idx.h >= 2 * Len(poll.options))
            THEN MemResult(polls, "validation", <<>>)
       ELSE IF visitorId \in poll.voters THEN MemResult(polls, "forbidden", <<>>)
       ELSE IF ~(idx.num /\ idx.h % 2 = 0
                 /\ idx.h \div 2 \in 0..(Len(poll.options) - 1))
            THEN MemResult(polls, "internal", <<>>)
       ELSE LET after == [poll EXCEPT !.options[idx.h \div 2 + 1].votes = @ + 1,
                                      !.voters = @ \cup {visitorId}]
            IN MemResult([polls EXCEPT ![pollId] = after], "ok",
                         <<MemView(after, TRUE)>>)

\* ----------------------------------- both variants serve the same requests

\* durationAmount and durationUnit of the Creates sent to both variants: an
\* hour, and a unit that names an inherited property.
BothDurations == DurationInputs \cup {[amount |-> 0, unit |-> "constructor"]}

\* The requests a client sends.  The id of a POST is the value that
\* Math.random().toString(36).substring(2, 10) gives in both variants.
CreateRequests ==
    [op : {"POST"}, id : SeqIds, title : TitleInputs, options : OptionInputs,
     creatorId : CreatorInputs, creatorName : NameInputs, dur : BothDurations]

VoteRequests ==
    [op : {"PUT"}, id : SeqIds, idx : IndexInputs, visitorId : BodyVisitorInputs]

GetRequests == [op : {"GET"}, id : SeqIds, visitorId : CallerInputs]

\* The client sends a request to both variants, once both have answered the
\* last one.
Send(request) ==
    /\ Alone
    /\ mem.phase # "sent"
    /\ mem.sent < MaxSends
    /\ mem' = [mem EXCEPT !.phase = "sent", !.request = request,
                          !.resp = NoResponse, !.sent = @ + 1]
    /\ UNCHANGED <<kv, kvExp, zindex, now, ticks, req, created, picks, deleted>>

\* The in-memory variant handles the request: its handlers have no await
\* after the body has been read.
MemServe ==
    /\ mem.phase = "sent"
    /\ \E r \in Slots : req[r].pc = "done"
    /\ LET q == mem.request
           out == CASE q.op = "POST" -> MemPOST(mem.polls, q.id, q.title, q.options)
                    [] q.op = "PUT"  -> MemPUT(mem.polls, q.id, q.idx, q.visitorId)
                    [] q.op = "GET"  -> MemGET(mem.polls, q.id, q.visitorId)
       IN mem' = [mem EXCEPT !.phase = "served", !.request = NoRequest,
                             !.polls = out.polls, !.resp = out.resp]
    /\ UNCHANGED <<kv, kvExp, zindex, now, ticks, req, created, picks, deleted>>

\* No poll is past its expiresAt when the time d has passed.
StaysUnexpired(d) ==
    /\ \A id \in DOMAIN kv : kv[id] # Nil => now + d <= kv[id].expiresAt
    /\ \A r \in Slots :
          req[r].poll # Nil /\ req[r].poll.expiresAt # NaN
             => now + d <= req[r].poll.expiresAt

NextBoth ==
    \/ \E request \in CreateRequests \cup VoteRequests \cup GetRequests :
          Send(request)
    \/ \E r \in Slots :
          /\ Alone /\ mem.phase = "sent" /\ mem.request.op = "POST"
          /\ Create(r, mem.request.id, mem.request.title, mem.request.options,
                    mem.request.creatorId, mem.request.creatorName, mem.request.dur)
    \/ \E r \in Slots : SaveSet(r)
    \/ \E r \in Slots : SaveZadd(r)
    \/ \E r \in Slots :
          /\ Alone /\ mem.phase = "sent" /\ mem.request.op = "PUT"
          /\ Vote(r, mem.request.id, mem.request.idx, mem.request.visitorId)
    \/ \E r \in Slots :
          /\ Alone /\ mem.phase = "sent" /\ mem.request.op = "GET"
          /\ Get(r, mem.request.id, mem.request.visitorId)
    \/ MemServe
    \/ \E r \in Slots : mem.phase = "served" /\ Release(r)
    \/ \E d \in TickSteps : StaysUnexpired(d) /\ Tick(d)

SpecBoth == InitSeq /\ [][NextBoth]_vars

\* ------------------------------------------------------------------ claims

Stored(id) == kv[id] # Nil

\* Number of entries of seq equal to x.
Occurrences(seq, x) == Cardinality({i \in 1..Len(seq) : seq[i] = x})

Errors == {"validation", "notfound", "forbidden"}

\* The slot r takes a request in this step.
Takes(r, op, id, visitorId) ==
    /\ Free(r)
    /\ req'[r].op = op
    /\ req'[r].pollId = id
    /\ req'[r].visitorId = visitorId

\* C1: once a Vote of visitor v on poll p has returned success, every later
\* Vote of v on p with an index of one of p's options (p still stored) is
\* rejected as forbidden, and the stored p holds exactly one increment of v:
\* v is in voters exactly once.
C1_VoteOnce ==
    /\ \A r \in Slots :
          req[r].op = "PUT" /\ req[r].late
             => req[r].pc = "done" /\ req[r].kind = "forbidden"
    /\ \A e \in voted :
          Stored(e[1]) => Occurrences(kv[e[1]].voters, e[2]) = 1

\* C2: in every stored record the vote counts add up to the number of
\* entries of voters, and no visitor occurs in voters twice.
C2_CountsMatchVoters ==
    \A id \in PollIds :
       Stored(id) =>
          /\ SumVotes(kv[id].options) = Len(kv[id].voters)
          /\ \A v \in Visitors : Occurrences(kv[id].voters, v) <= 1

\* Two Vote requests have both written the same poll, and the record holds votes.
C2_Witness ==
    \E r, q \in Slots :
       /\ r # q
       /\ req[r].op = "PUT" /\ req[q].op = "PUT"
       /\ req[r].pc = "zadd" /\ req[q].pc = "zadd"
       /\ req[r].pollId = req[q].pollId
       /\ Stored(req[r].pollId)
       /\ Len(kv[req[r].pollId].voters) >= 1

\* C3: a Vote on a stored poll with now > expiresAt returns forbidden at once,
\* whatever its option index and whether or not the visitor has voted.
C3_ExpiredForbidden ==
    [][\A r \in Slots, id \in PollIds, v \in VisitorInputs :
          Takes(r, "PUT", id, v) /\ Stored(id) /\ now > kv[id].expiresAt
             => req'[r].pc = "done" /\ req'[r].kind = "forbidden"]_vars

\* A visitor who has not voted is refused on a stored poll past its expiry.
C3_Witness ==
    \E r \in Slots :
       /\ req[r].op = "PUT" /\ req[r].pc = "done" /\ req[r].kind = "forbidden"
       /\ Stored(req[r].pollId)
       /\ now > kv[req[r].pollId].expiresAt
       /\ ~Includes(kv[req[r].pollId].voters, req[r].visitorId)

\* The record b holds every vote of the record a.
Forward(a, b) ==
    /\ Len(b.options) = Len(a.options)
    /\ \A i \in 1..Len(a.options) : b.options[i].votes >= a.options[i].votes
    /\ \A i \in 1..Len(a.voters) : Includes(b.voters, a.voters[i])

\* C4: when a Vote writes a poll that is stored, no vote count decreases and
\* no visitor leaves voters.
C4_OnlyForward ==
    [][\A r \in Slots :
          /\ req[r].op = "PUT" /\ req[r].pc = "set" /\ req'[r].pc = "zadd"
          /\ Stored(req[r].pollId)
          => Forward(kv[req[r].pollId], kv'[req[r].pollId])]_vars

\* C5: a poll whose Delete has returned success is not stored any more, so
\* that Get answers not-found and List leaves it out, also when a Vote that
\* had read it writes afterwards.
C5_DeletedForGood == \A id \in deleted : ~Stored(id)

\* Two Vote requests of one visitor on one poll have both passed the
\* already-voted check and both written.
BothLanded(r, q) ==
    /\ r # q
    /\ req[r].op = "PUT" /\ req[q].op = "PUT"
    /\ req[r].pc = "zadd" /\ req[q].pc = "zadd"
    /\ req[r].pollId = req[q].pollId
    /\ req[r].visitorId = req[q].visitorId

\* The counts hold more increments than voters has visitors, or v twice.
DoubleCounted(poll, v) ==
    \/ Occurrences(poll.voters, v) >= 2
    \/ SumVotes(poll.options) > Len(poll.voters)

\* C6 as stated: when both Votes of the visitor have passed the check and
\* written, the stored poll counts the visitor twice.
C6_DoubleCount ==
    \A r, q \in Slots :
       BothLanded(r, q) /\ Stored(req[r].pollId)
          => DoubleCounted(kv[req[r].pollId], req[r].visitorId)

\* C6 as amended: when both Votes of the visitor have passed the check and
\* written, the stored poll does not count the visitor twice: every write
\* replaces the record, so at most one of the two increments is stored.
C6_LastWriteWins ==
    \A r, q \in Slots :
       BothLanded(r, q) /\ Stored(req[r].pollId)
          => /\ ~DoubleCounted(kv[req[r].pollId], req[r].visitorId)
             /\ SumVotes(kv[req[r].pollId].options)
                   <= Cardinality({kv[req[r].pollId].voters[i] :
                                     i \in 1..Len(kv[req[r].pollId].voters)})

\* Both Votes have written, for different options, and one record is stored.
C6_Witness ==
    \E r, q \in Slots :
       /\ BothLanded(r, q)
       /\ req[r].poll.options # req[q].poll.options
       /\ kv[req[r].pollId] = req[q].poll

\* C7: every stored poll has at least 2 options, none with an empty text.
C7_TwoOptions ==
    \A id \in PollIds :
       Stored(id) =>
          /\ Len(kv[id].options) >= 2
          /\ \A i \in 1..Len(kv[id].options) : kv[id].options[i].text # <<>>

\* C8: on a stored, unexpired poll a Vote with an index that is no integer in
\* [0, N) returns a validation error and is not written.
C8_IndexValidated ==
    [][\A r \in Slots, id \in PollIds, idx \in IndexInputs, v \in VisitorInputs :
          /\ Vote(r, id, idx, v)
          /\ Stored(id) /\ ~isExpired(kv[id]) /\ ~IsElement(idx, kv[id])
          => req'[r].pc = "done" /\ req'[r].kind = "validation"]_vars

\* C9: a Delete by a visitor other than the creator returns forbidden at once
\* and writes nothing: a Get of the poll answers afterwards what it answered
\* before.
C9_DeleteForbidden ==
    [][\A r \in Slots, id \in PollIds, v \in VisitorInputs :
          Takes(r, "DELETE", id, v) /\ Stored(id) /\ kv[id].creatorId # v
             => /\ req'[r].pc = "done" /\ req'[r].kind = "forbidden"
                /\ ~req'[r].wrote
                /\ kv'[id] # Nil
                /\ \A w \in VisitorInputs :
                      GetOutcome(Start("GET", id, w), getPoll(id))'
                         = GetOutcome(Start("GET", id, w), getPoll(id))]_vars

\* A Delete by another visitor has been refused and the poll is stored.
C9_Witness ==
    \E r \in Slots :
       /\ req[r].op = "DELETE" /\ req[r].pc = "done" /\ req[r].kind = "forbidden"
       /\ Stored(req[r].pollId)
       /\ kv[req[r].pollId].creatorId # req[r].visitorId
       /\ Len(kv[req[r].pollId].voters) >= 1

\* C10: a handler that returns a validation, not-found or forbidden error has
\* written nothing, neither in the step that returns nor before it.
C10_ErrorsWriteNothing ==
    [][\A r \in Slots :
          req[r].pc # "done" /\ req'[r].pc = "done" /\ req'[r].kind \in Errors
             => /\ ~req'[r].wrote
                /\ kv' = kv /\ kvExp' = kvExp /\ zindex' = zindex]_vars

\* A Create, Vote or Delete has been refused on a store that holds a poll.
C10_Witness ==
    \E r \in Slots :
       /\ req[r].pc = "done" /\ req[r].kind \in Errors
       /\ req[r].op \in {"POST", "PUT", "DELETE"}
       /\ \E id \in PollIds : Stored(id) /\ zindex # {}

\* The identifiers of the store.
Ids == DOMAIN kv

Members(z) == {e.member : e \in z}

\* A Delete removes the record of id in this step.
DeleteRemoves(id) ==
    \E r \in Slots :
       /\ req[r].op = "DELETE" /\ req[r].pollId = id
       /\ req[r].pc = "del" /\ req'[r].pc = "zrem"

\* The response of the slot r carries one view, of the poll p, with this
\* value of expired.
Shows(h, p, expired) ==
    /\ h.pc = "done" /\ h.kind = "ok"
    /\ Len(h.views) = 1
    /\ h.views[1].poll = sanitize(p)
    /\ h.views[1].expired = expired

\* C11 as stated: a stored poll past its expiresAt stays stored, and so
\* readable and deletable, at every later time unless a Delete removes it.
C11_StaysForever ==
    [][\A id \in Ids :
          Stored(id) /\ now > kv[id].expiresAt /\ kv'[id] = Nil
             => DeleteRemoves(id)]_vars

\* C11 as amended: a stored poll past its expiresAt stays stored until a
\* Delete removes it or its time-to-live runs out, which happens no earlier
\* than 30 days after expiresAt; as long as it is stored Get returns it with
\* expired = true, Delete by its creator goes through, and List reads it and
\* returns it with expired = true (it is in the index once its Create has
\* returned and as long as no Delete of it has).
C11_ReadableUntilPurged ==
    [][\A id \in Ids :
          Stored(id) /\ now > kv[id].expiresAt
             => /\ kv'[id] = Nil
                   => \/ DeleteRemoves(id)
                      \/ now' >= kv[id].expiresAt + TtlBufferUnits
                /\ \A r \in Slots, v \in CallerInputs :
                      Takes(r, "GET", id, v) => Shows(req'[r], kv[id], TRUE)
                /\ \A r \in Slots :
                      Takes(r, "DELETE", id, kv[id].creatorId) => req'[r].pc = "del"
                /\ \A r \in Slots, v \in CallerInputs :
                      Takes(r, "LIST", 0, v) /\ id \in Members(zindex)
                         => Includes(req'[r].pending, id)
                /\ \A r \in Slots :
                      /\ req[r].pc = "list" /\ req'[r] # req[r]
                      /\ Head(req[r].pending) = id
                      => /\ Len(req'[r].views) = Len(req[r].views) + 1
                         /\ req'[r].views[Len(req'[r].views)].poll = sanitize(kv[id])
                         /\ req'[r].views[Len(req'[r].views)].expired
                /\ (id \notin deleted /\ \A r \in Slots : req[r].pollId # id)
                      => id \in Members(zindex)]_vars

\* A Get and a Delete by the creator have been served on a stored poll more
\* than 30 days past its expiresAt.
C11_Witness ==
    \E r, q \in Slots :
       /\ req[r].op = "GET" /\ req[r].pc = "done" /\ req[r].kind = "ok"
       /\ req[r].views[1].expired
       /\ req[q].op = "DELETE" /\ req[q].pc = "del"
       /\ Stored(req[q].pollId)
       /\ now >= kv[req[q].pollId].expiresAt + TtlBufferUnits

\* C12: the record a Create writes has the count 0 at every option and no
\* voters, and the response of the Create reports totalVoters = 0 and
\* hasVoted = false.
C12_CreatedEmpty ==
    [][\A r \in Slots :
          req[r].op = "POST"
             => /\ req[r].pc = "set" /\ req'[r].pc = "zadd"
                   => /\ Stored(req[r].pollId)'
                      /\ kv'[req[r].pollId].voters = <<>>
                      /\ \A i \in 1..Len(kv'[req[r].pollId].options) :
                            kv'[req[r].pollId].options[i].votes = 0
                /\ req[r].pc = "zadd" /\ req'[r].pc = "done"
                   => /\ req'[r].kind = "ok"
                      /\ Len(req'[r].views) = 1
                      /\ req'[r].views[1].poll.totalVoters = 0
                      /\ req'[r].views[1].poll.id = req[r].pollId
                      /\ ~req'[r].views[1].hasVoted]_vars

\* A Create has returned a poll of two options, which is stored.
C12_Witness ==
    \E r \in Slots :
       /\ req[r].op = "POST" /\ req[r].pc = "done" /\ req[r].kind = "ok"
       /\ Stored(req[r].pollId)
       /\ Len(kv[req[r].pollId].options) = 2
       /\ Len(req[r].views[1].poll.options) = 2

\* The place of the poll id in a List response (0: it is not there).
Place(views, id) ==
    IF \E k \in 1..Len(views) : views[k].poll.id = id
    THEN CHOOSE k \in 1..Len(views) : views[k].poll.id = id
    ELSE 0

\* The place of the last Create of id in the order of the Creates.
LastCreate(id) ==
    CHOOSE k \in 1..Len(created) :
       created[k] = id /\ \A j \in (k + 1)..Len(created) : created[j] # id

\* C13: a List that has returned holds every stored poll, each once, and of
\* two polls it holds the one created later comes first.
C13_NewestFirst ==
    \A r \in Slots :
       req[r].op = "LIST" /\ req[r].pc = "done"
          => /\ \A id \in Ids : Stored(id) => Place(req[r].views, id) > 0
             /\ \A j, k \in 1..Len(req[r].views) :
                   j # k => req[r].views[j].poll.id # req[r].views[k].poll.id
             /\ \A p1, p2 \in Ids :
                   /\ Place(req[r].views, p1) > 0 /\ Place(req[r].views, p2) > 0
                   /\ LastCreate(p1) < LastCreate(p2)
                   => Place(req[r].views, p2) < Place(req[r].views, p1)

\* The length of one unit of duration, in clock units: an hour, a day, a week,
\* a month of 30 days; any other unit counts as days.
UnitLength(unit) ==
    CASE unit = "hours"  -> Hour
      [] unit = "weeks"  -> 7 * 24 * Hour
      [] unit = "months" -> 30 * 24 * Hour
      [] OTHER           -> 24 * Hour

\* C14: the poll a Create builds from the duration (amount, unit) has
\* expiresAt = createdAt + max(1, amount) * UnitLength(unit), which is later
\* than createdAt.
C14_ExpiresAt ==
    [][\A r \in Slots, id \in Ids, title \in TitleInputs, options \in OptionInputs,
         creatorId \in CreatorInputs, creatorName \in NameInputs,
         dur \in DurationCases :
          /\ Create(r, id, title, options, creatorId, creatorName, dur)
          /\ ~CreateRejected(title, options)
          => /\ req'[r].poll # Nil
             /\ req'[r].poll.createdAt = now
             /\ req'[r].poll.expiresAt
                   = now + Max(1, dur.amount) * UnitLength(dur.unit)
             /\ req'[r].poll.expiresAt > req'[r].poll.createdAt]_vars

\* The Votes on the poll id that returned success and picked its option i.
PicksOf(id, i) == {e \in picks : e.id = id /\ e.i = i}

\* The stored polls p and q are the outcomes of two executions that differ at
\* most in who picked which option: they were created alike, the same
\* visitors have voted on them in the same order (requests are handled one at
\* a time, so that voters holds the visitors in the order of their Votes), and
\* every option was picked as often in the one as in the other.
SameBallotCounts(p, q) ==
    /\ Stored(p) /\ Stored(q)
    /\ kv[p].title = kv[q].title
    /\ kv[p].creatorId = kv[q].creatorId /\ kv[p].creatorName = kv[q].creatorName
    /\ kv[p].createdAt = kv[q].createdAt /\ kv[p].expiresAt = kv[q].expiresAt
    /\ Len(kv[p].options) = Len(kv[q].options)
    /\ \A i \in 1..Len(kv[p].options) :
          /\ kv[p].options[i].text = kv[q].options[i].text
          /\ Cardinality(PicksOf(p, i)) = Cardinality(PicksOf(q, i))
    /\ kv[p].voters = kv[q].voters
    /\ {e.v : e \in {d \in picks : d.id = p}} = {kv[p].voters[k] : k \in 1..Len(kv[p].voters)}
    /\ {e.v : e \in {d \in picks : d.id = q}} = {kv[q].voters[k] : k \in 1..Len(kv[q].voters)}

\* C15: two polls that differ at most in who picked which option have the
\* same stored record and the same view for every caller, up to the id.
C15_ChoiceNotStored ==
    \A p, q \in Ids :
       SameBallotCounts(p, q)
          => /\ kv[p] = [kv[q] EXCEPT !.id = p]
             /\ \A v \in VisitorInputs :
                   GetView(kv[p], v) = [GetView(kv[q], v) EXCEPT !.poll.id = p]

\* Two polls on which A and B have voted in this order, A for the first
\* option of one and the second of the other, B the other way round.
C15_Witness ==
    \E p, q \in Ids :
       /\ p # q
       /\ SameBallotCounts(p, q)
       /\ kv[p].voters = <<"A", "B">>
       /\ [id |-> p, v |-> "A", i |-> 1] \in picks
       /\ [id |-> p, v |-> "B", i |-> 2] \in picks
       /\ [id |-> q, v |-> "A", i |-> 2] \in picks
       /\ [id |-> q, v |-> "B", i |-> 1] \in picks

C17_TtlAfterExpiry ==
    [][\A id \in Ids :
          Stored(id)
             => /\ kvExp[id] > kv[id].expiresAt
                /\ (kv'[id] = Nil /\ ~DeleteRemoves(id)) => now' > kv[id].expiresAt
                /\ (now' <= kv[id].expiresAt /\ ~DeleteRemoves(id))
                      => \A r \in Slots, v \in CallerInputs :
                            Takes(r, "GET", id, v) => req'[r].kind = "ok"]_vars

\* At the very time expiresAt a Vote has saved the poll once more, and it is
\* stored.
C17_Witness ==
    \E r \in Slots :
       /\ req[r].op = "PUT" /\ req[r].pc = "zadd"
       /\ Stored(req[r].pollId)
       /\ now = kv[req[r].pollId].expiresAt
       /\ Len(kv[req[r].pollId].voters) >= 1

\* C18: when a Create writes its poll, no poll is stored under the poll's
\* identifier, and every poll that is stored stays as it is.
C18_FreshId ==
    [][\A r \in Slots :
          req[r].op = "POST" /\ req[r].pc = "set" /\ req'[r].pc = "zadd"
             => /\ ~Stored(req[r].pollId)
                /\ \A id \in Ids : Stored(id) => kv'[id] = kv[id]]_vars

\* The index idx (in halves) is a number outside [0, n).
OutOfBounds(idx, n) == idx.num /\ (idx.h < 0 \/ idx.h >= 2 * n)

\* The error the four checks of Vote give in their order, "none" when all pass.
FirstRejection(id, idx, v) ==
    IF ~Stored(id) THEN "notfound"
    ELSE IF now > kv[id].expiresAt THEN "forbidden"
    ELSE IF OutOfBounds(idx, Len(kv[id].options)) THEN "validation"
    ELSE IF \E k \in 1..Len(kv[id].voters) : kv[id].voters[k] = v THEN "forbidden"
    ELSE "none"

\* C19: a Vote is rejected with the error of the first check that fails, in
\* the order unknown poll, expired poll, index out of bounds, visitor already
\* in voters; when no check fails it is not rejected with one of these errors.
C19_CheckOrder ==
    [][\A r \in Slots, id \in Ids, v \in VisitorInputs :
          Takes(r, "PUT", id, v)
             => \A idx \in IndexInputs :
                   Vote(r, id, idx, v)
                      => IF FirstRejection(id, idx, v) = "none"
                         THEN req'[r].kind \notin Errors
                         ELSE /\ req'[r].pc = "done"
                              /\ req'[r].kind = FirstRejection(id, idx, v)]_vars

\* A visitor who has voted sends an index out of bounds on an unexpired poll
\* and gets a validation error.
C19_Witness ==
    \E r \in Slots :
       /\ req[r].op = "PUT" /\ req[r].pc = "done" /\ req[r].kind = "validation"
       /\ Stored(req[r].pollId)
       /\ now <= kv[req[r].pollId].expiresAt
       /\ Includes(kv[req[r].pollId].voters, req[r].visitorId)

\* The record new is the record old with one more vote for its option i and
\* the visitor v added to voters, and nothing else changed.
OneVoteMore(old, new, i, v) ==
    /\ old # Nil /\ new # Nil
    /\ Len(new.options) = Len(old.options)
    /\ new.options[i].votes = old.options[i].votes + 1
    /\ new.options[i].text = old.options[i].text
    /\ \A j \in 1..Len(old.options) : j # i => new.options[j] = old.options[j]
    /\ new.voters = Append(old.voters, v)
    /\ new.id = old.id /\ new.title = old.title
    /\ new.creatorId = old.creatorId /\ new.creatorName = old.creatorName
    /\ new.createdAt = old.createdAt /\ new.expiresAt = old.expiresAt

\* The Vote in the slot r is the only Vote of its visitor on its poll: none
\* has returned success and no other is in progress.
OnlyVote(r) ==
    /\ <<req[r].pollId, req[r].visitorId>> \notin voted
    /\ \A q \in Slots \ {r} :
          ~(/\ req[q].op = "PUT"
            /\ req[q].pollId = req[r].pollId
            /\ req[q].visitorId = req[r].visitorId)

\* C20: the write of a Vote of v for the option i of a stored poll p (the
\* only Vote of v on p) changes p by one more vote for i and by v in voters
\* and changes nothing else, no other poll either; the Vote then returns a
\* view with hasVoted = true.
C20_VoteFrame ==
    [][\A r \in Slots :
          req[r].op = "PUT"
             => /\ /\ req[r].pc = "set" /\ req'[r].pc = "zadd"
                   /\ Stored(req[r].pollId) /\ OnlyVote(r)
                   => /\ OneVoteMore(kv[req[r].pollId], kv'[req[r].pollId],
                                     req[r].choice, req[r].visitorId)
                      /\ \A id \in Ids : id # req[r].pollId => kv'[id] = kv[id]
                /\ req[r].pc = "zadd" /\ req'[r].pc = "done"
                   => /\ req'[r].kind = "ok"
                      /\ req'[r].views[1].hasVoted]_vars

\* C21: whenever no request is in progress, an id is a member of the ordering
\* index exactly when a poll record with that id is stored.
C21_IndexAgrees ==
    Alone => \A id \in Ids : id \in Members(zindex) <=> Stored(id)

\* The persistent response h and the in-memory response resp are of the same
\* kind and, when they carry a poll, report the same options with the same
\* counts, the same totalVoters and the same hasVoted.
SameAnswer(h, resp) ==
    /\ h.kind = resp.kind
    /\ Len(h.views) = Len(resp.views)
    /\ \A k \in 1..Len(h.views) :
          /\ h.views[k].poll.options = resp.views[k].poll.options
          /\ h.views[k].poll.totalVoters = resp.views[k].poll.totalVoters
          /\ h.views[k].hasVoted = resp.views[k].hasVoted

\* C22: on every request of a sequence of Creates, Gets and Votes handled one
\* at a time, with no poll past its expiresAt, the persistent and the
\* in-memory variant give the same answer: both accept or both reject with
\* the same error kind, and both report the same option counts, totalVoters
\* and hasVoted.
C22_Interchangeable ==
    \A r \in Slots :
       req[r].pc = "done" /\ mem.phase = "served" => SameAnswer(req[r], mem.resp)

====
